---- MODULE Spec2Model ----
(***************************************************************************)
(* Model of assets/script.py, the synthetic data generator of CreditIQ     *)
(* Analytics: seeding, the borrower / alternative-data / loan tables, the  *)
(* default-probability heuristic, and the four output files.               *)
(*                                                                         *)
(* Number representation.  Probabilities, risk adjustments, the noise term *)
(* and the two beta-distributed scores are fixed point with three decimals *)
(* (0.15 is 150, 0.8 is 800).  Interest rates are fixed point with two     *)
(* decimals (16.00 is 1600).  The float draws that the script truncates    *)
(* with .astype(int) are fixed point with one decimal (35.2 is 352).       *)
(***************************************************************************)
EXTENDS Integers, Sequences, FiniteSets, TLC

VARIABLES
    pc,             \* the statement the script executes next
    n_borrowers,    \* record count (line 12)
    seed_calls,     \* np.random.seed calls made by this process
    draw_calls,     \* np.random draw calls made by this process
    pos,            \* position of the global generator in its stream
    stream,         \* values the generator seeded with 42 has produced
    borrower_data,  \* dict of columns (lines 15-31)
    borrower_df,    \* DataFrame, a sequence of rows (line 33)
    alt_data_df,    \* DataFrame (line 53)
    default_probs,  \* list (lines 99-102)
    loan_data,      \* dict of columns (lines 104-121)
    loan_df,        \* DataFrame (line 123)
    files,          \* output directory: file name -> content
    clock,          \* wall-clock time, in ticks since the first run began
    run,            \* 1 for the first process, 2 for a rerun
    prev_files,     \* output directory as the previous run left it
    call_pc,        \* direct call of calculate_default_probability
    arg_row,        \*   its row argument
    arg_alt_row,    \*   its alt_row argument
    arg_noise,      \*   the value np.random.normal(0, 0.1) returned in it
    ret_terms,      \*   the increments applied to risk_score, in order
    ret_prob        \*   its return value

gen_vars == <<pc, n_borrowers, seed_calls, draw_calls, pos, stream,
              borrower_data, borrower_df, alt_data_df, default_probs,
              loan_data, loan_df, files, clock, run, prev_files>>
call_vars == <<call_pc, arg_row, arg_alt_row, arg_noise, ret_terms, ret_prob>>
vars == <<gen_vars, call_vars>>

(***************************************************************************)
(* Bounds of the model.                                                    *)
(***************************************************************************)
MaxN == 2            \* record counts 1..MaxN stand for n_borrowers = 1000
MaxNoiseSteps == 8   \* direct calls see noise of up to MaxNoiseSteps steps of 0.125
MaxClock == 2        \* latest tick at which a rerun may start

(***************************************************************************)
(* Python built-ins.                                                       *)
(***************************************************************************)
max(a, b) == IF a >= b THEN a ELSE b
min(a, b) == IF a <= b THEN a ELSE b

RECURSIVE SumSeq(_)
SumSeq(s) == IF s = <<>> THEN 0 ELSE Head(s) + SumSeq(Tail(s))

(***************************************************************************)
(* calculate_default_probability (lines 59-96).  Each factor is one        *)
(* if-block of the function; noise is the value drawn at line 94.          *)
(***************************************************************************)
age_factor_exclusive(row) ==
    IF 25 < row.age /\ row.age < 45 THEN -100 ELSE 50

age_factor(row) ==
    IF 25 <= row.age /\ row.age <= 45 THEN -100 ELSE 50

income_factor(row) ==
    IF row.income > 50000 THEN -150
    ELSE IF row.income < 25000 THEN 200
    ELSE 0

employment_factor(row) ==
    IF row.employment_type = "Salaried" THEN -100
    ELSE IF row.employment_type = "Self-Employed" THEN 50
    ELSE 0

utility_factor_plus(alt_row) ==
    IF alt_row.utility_bill_payment_consistency > 800 THEN 100 ELSE 0

utility_factor(alt_row) ==
    IF alt_row.utility_bill_payment_consistency > 800 THEN -100 ELSE 0

upi_factor(alt_row) ==
    IF alt_row.upi_transactions_monthly > 30 THEN -50 ELSE 0

location_factor(alt_row) ==
    IF alt_row.location_stability_score > 700 THEN -80 ELSE 0

history_factor_inclusive(row) ==
    IF row.credit_history_months >= 24 THEN -100 ELSE 0

history_factor(row) ==
    IF row.credit_history_months > 24 THEN -100 ELSE 0

\* The increments applied to risk_score, in the order the function applies them.
risk_terms(row, alt_row, noise) ==
    << age_factor(row), income_factor(row), employment_factor(row),
       utility_factor(alt_row), upi_factor(alt_row), location_factor(alt_row),
       history_factor(row), noise >>

\* risk_score as line 96 reads it.
risk_score(row, alt_row, noise) == SumSeq(risk_terms(row, alt_row, noise))

bounded_lower_only(score) == max(20, score)

\* max(0.02, min(0.95, score)) of line 96.
bounded(score) == max(20, min(950, score))

calculate_default_probability(row, alt_row, noise) ==
    bounded(150 + risk_score(row, alt_row, noise))

(***************************************************************************)
(* The script as a process: start of a run.                                *)
(***************************************************************************)
GenStart(n) ==
    /\ pc = "seed"
    /\ n_borrowers = n
    /\ seed_calls = 0
    /\ draw_calls = 0
    /\ pos = 0
    /\ stream = <<>>
    /\ borrower_data = <<>>
    /\ borrower_df = <<>>
    /\ alt_data_df = <<>>
    /\ default_probs = <<>>
    /\ loan_data = <<>>
    /\ loan_df = <<>>
    /\ files = <<>>
    /\ clock = 0
    /\ run = 1
    /\ prev_files = <<>>

NoCall ==
    /\ call_pc = "none"
    /\ arg_row = <<>>
    /\ arg_alt_row = <<>>
    /\ arg_noise = 0
    /\ ret_terms = <<>>
    /\ ret_prob = 0

(***************************************************************************)
(* Direct calls of calculate_default_probability: the arguments range over *)
(* rows around every threshold of the function and over the two scenarios  *)
(* of the specification; the noise ranges over ten standard deviations.    *)
(***************************************************************************)
CallAges == {24, 25, 35, 45, 46, 60}
CallIncomes == {20000, 24999, 25000, 50000, 50001, 60000}
EmploymentTypes == {"Salaried", "Self-Employed", "Business Owner", "Freelancer"}
CallHistories == {5, 24, 25, 30}
CallUtilities == {300, 500, 800, 850, 900}
CallUpis == {5, 30, 40}
CallLocations == {400, 700, 750}
CallNoises == {125 * k : k \in -MaxNoiseSteps..MaxNoiseSteps}

CallRows ==
    [age : CallAges, income : CallIncomes, employment_type : EmploymentTypes,
     credit_history_months : CallHistories]
CallAltRows ==
    [utility_bill_payment_consistency : CallUtilities,
     upi_transactions_monthly : CallUpis,
     location_stability_score : CallLocations]

InitCall ==
    /\ GenStart(1)
    /\ call_pc = "called"
    /\ arg_row \in CallRows
    /\ arg_alt_row \in CallAltRows
    /\ arg_noise \in CallNoises
    /\ ret_terms = <<>>
    /\ ret_prob = 0

\* One execution of the function body, from line 61 to the return at line 96.
Call ==
    /\ call_pc = "called"
    /\ call_pc' = "returned"
    /\ ret_terms' = risk_terms(arg_row, arg_alt_row, arg_noise)
    /\ ret_prob' = calculate_default_probability(arg_row, arg_alt_row, arg_noise)
    /\ UNCHANGED <<arg_row, arg_alt_row, arg_noise, gen_vars>>

NextCall == Call

SpecCall == InitCall /\ [][NextCall]_vars

(***************************************************************************)
(* numpy and pandas operations the script uses.                            *)
(***************************************************************************)
Rows == 1..n_borrowers

\* ndarray.astype(int) on a float with one decimal: truncation toward zero.
astype_int(x) == IF x >= 0 THEN x \div 10 ELSE -((-x) \div 10)

clip_upper_only(x, lo, hi) == min(x, hi)

\* np.clip on one element.
clip(x, lo, hi) == max(lo, min(x, hi))

\* np.clip on a column.
clip_column(col, lo, hi) == [i \in DOMAIN col |-> clip(col[i], lo, hi)]

\* pd.DataFrame(dict of equally long columns): one row record per position.
DataFrame(data) ==
    [i \in Rows |-> [c \in DOMAIN data |-> data[c][i]]]

\* df.iloc[i], i counted from 0.
iloc(df, i) == df[i + 1]

\* df[name]: one column of a DataFrame.
column(df, name) == [i \in DOMAIN df |-> df[i][name]]

\* str(i) for i >= 0, as the sequence of its decimal digits.
RECURSIVE str(_)
str(i) == IF i < 10 THEN <<i>> ELSE Append(str(i \div 10), i % 10)

\* s.zfill(width): zeros on the left up to width, never a cut.
RECURSIVE zfill(_, _)
zfill(s, width) == IF Len(s) >= width THEN s ELSE zfill(<<0>> \o s, width)

\* f'BRW{str(i).zfill(6)}' and f'LN{str(i).zfill(8)}'.
borrower_id(i) == <<"BRW">> \o zfill(str(i), 6)
loan_id(i) == <<"LN">> \o zfill(str(i), 8)

\* str(bool), as to_csv writes a boolean.
bool_text(b) == IF b THEN "True" ELSE "False"

\* datetime.now() - timedelta(days=d): the clock reading moved back d days.
\* Ticks are far shorter than a day, so the two parts never mix.
application_date(now, d) == [ticks |-> now, days |-> -d]

\* df.to_csv(path, index=False): a header line and one line per row, the
\* fields in column order.
to_csv(df, columns) ==
    <<columns>> \o [i \in DOMAIN df |->
                      [k \in DOMAIN columns |-> df[i][columns[k]]]]

(***************************************************************************)
(* The global generator.  np.random.seed(42) fixes the whole stream; the   *)
(* model learns the stream as it is drawn and keeps it across a rerun, so  *)
(* that a second process seeded alike draws the same values.               *)
(***************************************************************************)
\* The values the next draw can return, out of the values S of its law.
next_draw(S) == IF pos < Len(stream) THEN {stream[pos + 1]} ELSE S

\* The generator after a draw returned d in `calls' np.random calls.
Drawn(d, calls) ==
    /\ stream' = IF pos < Len(stream) THEN stream ELSE Append(stream, d)
    /\ pos' = pos + 1
    /\ draw_calls' = draw_calls + calls

\* Line 9.
SeedRandom ==
    /\ pc = "seed"
    /\ pc' = "borrower_data"
    /\ seed_calls' = seed_calls + 1
    /\ pos' = 0
    /\ UNCHANGED <<n_borrowers, draw_calls, stream, borrower_data, borrower_df,
                   alt_data_df, default_probs, loan_data, loan_df, files, clock,
                   run, prev_files, call_vars>>

(***************************************************************************)
(* 1. Borrower data (lines 15-33).                                         *)
(***************************************************************************)
\* What one position of the eight draws of lines 17-24 can return: a value
\* below every lower clamp, a value within all clamps, a value above every
\* upper clamp.  The float columns carry one decimal.
BorrowerDraws ==
    { [age |-> -25, income |-> 90005, employment_type |-> "Self-Employed",
       city_tier |-> "Tier 3", education |-> "Diploma", existing_loans |-> 0,
       credit_history_months |-> 4, bank_account_age_months |-> 19],
      [age |-> 352, income |-> 600007, employment_type |-> "Salaried",
       city_tier |-> "Tier 1", education |-> "Graduate", existing_loans |-> 1,
       credit_history_months |-> 306, bank_account_age_months |-> 360],
      [age |-> 759, income |-> 25000003, employment_type |-> "Freelancer",
       city_tier |-> "Tier 2", education |-> "Post-Graduate", existing_loans |-> 3,
       credit_history_months |-> 1305, bank_account_age_months |-> 2502] }

\* The dict of lines 15-25 built from the drawn columns d.
borrower_dict(d) ==
    [borrower_id |-> [i \in Rows |-> borrower_id(i)],
     age |-> [i \in Rows |-> astype_int(d[i].age)],
     income |-> [i \in Rows |-> astype_int(d[i].income)],
     employment_type |-> [i \in Rows |-> d[i].employment_type],
     city_tier |-> [i \in Rows |-> d[i].city_tier],
     education |-> [i \in Rows |-> d[i].education],
     existing_loans |-> [i \in Rows |-> d[i].existing_loans],
     credit_history_months |-> [i \in Rows |-> astype_int(d[i].credit_history_months)],
     bank_account_age_months |-> [i \in Rows |-> astype_int(d[i].bank_account_age_months)]]

\* Lines 15-25.
GenBorrowerData ==
    /\ pc = "borrower_data"
    /\ pc' = "borrower_clip"
    /\ \E d \in next_draw([Rows -> BorrowerDraws]) :
          /\ Drawn(d, 8)
          /\ borrower_data' = borrower_dict(d)
    /\ UNCHANGED <<n_borrowers, seed_calls, borrower_df, alt_data_df,
                   default_probs, loan_data, loan_df, files, clock, run,
                   prev_files, call_vars>>

\* Lines 28-31.
borrower_clipped(data) ==
    [data EXCEPT
        !.age = clip_column(@, 18, 70),
        !.income = clip_column(@, 15000, 2000000),
        !.credit_history_months = clip_column(@, 0, 120),
        !.bank_account_age_months = clip_column(@, 3, 240)]

ClipBorrowerData ==
    /\ pc = "borrower_clip"
    /\ pc' = "borrower_df"
    /\ borrower_data' = borrower_clipped(borrower_data)
    /\ UNCHANGED <<n_borrowers, seed_calls, draw_calls, pos, stream, borrower_df,
                   alt_data_df, default_probs, loan_data, loan_df, files, clock,
                   run, prev_files, call_vars>>

\* Line 33.
MakeBorrowerDf ==
    /\ pc = "borrower_df"
    /\ pc' = "alt_data"
    /\ borrower_df' = DataFrame(borrower_data)
    /\ UNCHANGED <<n_borrowers, seed_calls, draw_calls, pos, stream,
                   borrower_data, alt_data_df, default_probs, loan_data, loan_df,
                   files, clock, run, prev_files, call_vars>>

(***************************************************************************)
(* 2. Alternative data (lines 40-53).                                      *)
(***************************************************************************)
\* What one position of the nine draws of lines 42-50 can return: a record
\* that earns all three bonuses of the scoring and one that earns none.
AltDraws ==
    { [upi_transactions_monthly |-> 45, utility_bill_payment_consistency |-> 850,
       gst_returns_filed |-> 9, mobile_recharge_frequency |-> 6,
       ecommerce_transactions_monthly |-> 8, digital_wallet_balance_avg |-> 4037,
       social_media_financial_mentions |-> 2,
       app_usage_financial_minutes_daily |-> 305, location_stability_score |-> 750],
      [upi_transactions_monthly |-> 5, utility_bill_payment_consistency |-> 300,
       gst_returns_filed |-> 3, mobile_recharge_frequency |-> 2,
       ecommerce_transactions_monthly |-> 1, digital_wallet_balance_avg |-> 129,
       social_media_financial_mentions |-> 5,
       app_usage_financial_minutes_daily |-> 2, location_stability_score |-> 400] }

\* The dict of lines 40-51 built from the drawn columns d.
alt_dict(d) ==
    [borrower_id |-> column(borrower_df, "borrower_id"),
     upi_transactions_monthly |-> [i \in Rows |-> d[i].upi_transactions_monthly],
     utility_bill_payment_consistency |->
         [i \in Rows |-> d[i].utility_bill_payment_consistency],
     gst_returns_filed |-> [i \in Rows |-> d[i].gst_returns_filed],
     mobile_recharge_frequency |-> [i \in Rows |-> d[i].mobile_recharge_frequency],
     ecommerce_transactions_monthly |->
         [i \in Rows |-> d[i].ecommerce_transactions_monthly],
     digital_wallet_balance_avg |->
         [i \in Rows |-> astype_int(d[i].digital_wallet_balance_avg)],
     social_media_financial_mentions |->
         [i \in Rows |-> d[i].social_media_financial_mentions],
     app_usage_financial_minutes_daily |->
         [i \in Rows |-> astype_int(d[i].app_usage_financial_minutes_daily)],
     location_stability_score |-> [i \in Rows |-> d[i].location_stability_score]]

\* Lines 40-53.
GenAltData ==
    /\ pc = "alt_data"
    /\ pc' = "score"
    /\ \E d \in next_draw([Rows -> AltDraws]) :
          /\ Drawn(d, 9)
          /\ alt_data_df' = DataFrame(alt_dict(d))
    /\ UNCHANGED <<n_borrowers, seed_calls, borrower_data, borrower_df,
                   default_probs, loan_data, loan_df, files, clock, run,
                   prev_files, call_vars>>

(***************************************************************************)
(* 3. Default probabilities (lines 99-102): one iteration of the loop.     *)
(***************************************************************************)
\* Values of np.random.normal(0, 0.1) seen by the loop: none, and six
\* standard deviations.
LoopNoises == {0, 600}

ScoreRowReseeding ==
    /\ pc = "score"
    /\ pc' = IF Len(default_probs) + 1 = n_borrowers THEN "loan_data" ELSE "score"
    /\ seed_calls' = seed_calls + 1
    /\ \E noise \in LoopNoises :
          /\ stream' = stream
          /\ pos' = 1
          /\ draw_calls' = draw_calls + 1
          /\ default_probs' = Append(default_probs,
                 calculate_default_probability(iloc(borrower_df, Len(default_probs)),
                                               iloc(alt_data_df, Len(default_probs)),
                                               noise))
    /\ UNCHANGED <<n_borrowers, borrower_data, borrower_df, alt_data_df,
                   loan_data, loan_df, files, clock, run, prev_files, call_vars>>

ScoreRow ==
    /\ pc = "score"
    /\ pc' = IF Len(default_probs) + 1 = n_borrowers THEN "loan_data" ELSE "score"
    /\ \E noise \in next_draw(LoopNoises) :
          /\ Drawn(noise, 1)
          /\ default_probs' = Append(default_probs,
                 calculate_default_probability(iloc(borrower_df, Len(default_probs)),
                                               iloc(alt_data_df, Len(default_probs)),
                                               noise))
    /\ UNCHANGED <<n_borrowers, seed_calls, borrower_data, borrower_df,
                   alt_data_df, loan_data, loan_df, files, clock, run, prev_files,
                   call_vars>>

(***************************************************************************)
(* 4. Loan data (lines 104-123).                                           *)
(***************************************************************************)
\* What one position of the draws of lines 107-115 can return: below every
\* lower clamp, within all clamps, above every upper clamp.  days is the
\* result of randint(1, 365); uniform that of random(), three decimals.
LoanDraws ==
    { [loan_amount |-> 50009, loan_tenure_months |-> 12, interest_rate |-> 500,
       loan_purpose |-> "Personal", days |-> 1, uniform |-> 10,
       credit_score_traditional |-> 2508],
      [loan_amount |-> 220264, loan_tenure_months |-> 24, interest_rate |-> 1600,
       loan_purpose |-> "Business", days |-> 180, uniform |-> 300,
       credit_score_traditional |-> 6507],
      [loan_amount |-> 15000001, loan_tenure_months |-> 48, interest_rate |-> 3000,
       loan_purpose |-> "Medical", days |-> 364, uniform |-> 950,
       credit_score_traditional |-> 9003] }

is_default_not_strict(u, probs) == [i \in DOMAIN probs |-> u[i] <= probs[i]]

\* [np.random.random() < prob for prob in default_probs], u the draws (line 114).
is_default_column(u, probs) == [i \in DOMAIN probs |-> u[i] < probs[i]]

loan_borrower_ids_regenerated(df) == [i \in DOMAIN df |-> borrower_id(i - 1)]

\* borrower_df['borrower_id'] of line 106.
loan_borrower_ids(df) == column(df, "borrower_id")

\* The dict of lines 104-116 built from the drawn columns d at time now.
loan_dict(d, now) ==
    [loan_id |-> [i \in Rows |-> loan_id(i)],
     borrower_id |-> loan_borrower_ids(borrower_df),
     loan_amount |-> [i \in Rows |-> astype_int(d[i].loan_amount)],
     loan_tenure_months |-> [i \in Rows |-> d[i].loan_tenure_months],
     interest_rate |-> [i \in Rows |-> d[i].interest_rate],
     loan_purpose |-> [i \in Rows |-> d[i].loan_purpose],
     application_date |-> [i \in Rows |-> application_date(now, d[i].days)],
     default_probability |-> default_probs,
     is_default |-> is_default_column([i \in Rows |-> d[i].uniform], default_probs),
     credit_score_traditional |->
         [i \in Rows |-> astype_int(d[i].credit_score_traditional)]]

\* Lines 104-116.  Every datetime.now() of line 112 reads the same tick.
GenLoanData ==
    /\ pc = "loan_data"
    /\ pc' = "loan_clip"
    /\ \E d \in next_draw([Rows -> LoanDraws]) :
          /\ Drawn(d, 5 + 2 * n_borrowers)
          /\ loan_data' = loan_dict(d, clock)
    /\ UNCHANGED <<n_borrowers, seed_calls, borrower_data, borrower_df,
                   alt_data_df, default_probs, loan_df, files, clock, run,
                   prev_files, call_vars>>

\* Lines 119-121.
loan_clipped(data) ==
    [data EXCEPT
        !.loan_amount = clip_column(@, 10000, 1000000),
        !.interest_rate = clip_column(@, 800, 2500),
        !.credit_score_traditional = clip_column(@, 300, 850)]

ClipLoanData ==
    /\ pc = "loan_clip"
    /\ pc' = "loan_df"
    /\ loan_data' = loan_clipped(loan_data)
    /\ UNCHANGED <<n_borrowers, seed_calls, draw_calls, pos, stream,
                   borrower_data, borrower_df, alt_data_df, default_probs,
                   loan_df, files, clock, run, prev_files, call_vars>>

\* Line 123.
MakeLoanDf ==
    /\ pc = "loan_df"
    /\ pc' = "write_borrower"
    /\ loan_df' = DataFrame(loan_data)
    /\ UNCHANGED <<n_borrowers, seed_calls, draw_calls, pos, stream,
                   borrower_data, borrower_df, alt_data_df, default_probs,
                   loan_data, files, clock, run, prev_files, call_vars>>

(***************************************************************************)
(* 5. Output files (lines 130-132 and 195-196).  No statement of the       *)
(* script catches an exception, so a write that raises ends the process    *)
(* there, with the files written before it still in place.                 *)
(***************************************************************************)
BorrowerColumns ==
    <<"borrower_id", "age", "income", "employment_type", "city_tier",
      "education", "existing_loans", "credit_history_months",
      "bank_account_age_months">>
AltColumns ==
    <<"borrower_id", "upi_transactions_monthly",
      "utility_bill_payment_consistency", "gst_returns_filed",
      "mobile_recharge_frequency", "ecommerce_transactions_monthly",
      "digital_wallet_balance_avg", "social_media_financial_mentions",
      "app_usage_financial_minutes_daily", "location_stability_score">>
LoanColumns ==
    <<"loan_id", "borrower_id", "loan_amount", "loan_tenure_months",
      "interest_rate", "loan_purpose", "application_date",
      "default_probability", "is_default", "credit_score_traditional">>

OutputFiles ==
    {"sample_borrower_data.csv", "sample_alternative_data.csv",
     "sample_loan_data.csv", "data_generation_guidelines.txt"}

\* The directory with `content' stored under `name'.
put(dir, name, content) ==
    [f \in DOMAIN dir \cup {name} |-> IF f = name THEN content ELSE dir[f]]

\* The write of `name' succeeds and the script goes on at `next'.
Written(name, content, next) ==
    /\ pc' = next
    /\ files' = put(files, name, content)

\* The write of `name' raises at open(): the directory stays as it was and
\* the exception, which nothing catches, ends the process.
WriteRaised(name) ==
    /\ pc' = "aborted"
    /\ files' = files

\* Line 130.
WriteBorrowerCsv ==
    /\ pc = "write_borrower"
    /\ \/ Written("sample_borrower_data.csv",
                  to_csv(borrower_df, BorrowerColumns), "write_alt")
       \/ WriteRaised("sample_borrower_data.csv")
    /\ UNCHANGED <<n_borrowers, seed_calls, draw_calls, pos, stream,
                   borrower_data, borrower_df, alt_data_df, default_probs,
                   loan_data, loan_df, clock, run, prev_files, call_vars>>

\* Line 131.
WriteAltCsv ==
    /\ pc = "write_alt"
    /\ \/ Written("sample_alternative_data.csv",
                  to_csv(alt_data_df, AltColumns), "write_loan")
       \/ WriteRaised("sample_alternative_data.csv")
    /\ UNCHANGED <<n_borrowers, seed_calls, draw_calls, pos, stream,
                   borrower_data, borrower_df, alt_data_df, default_probs,
                   loan_data, loan_df, clock, run, prev_files, call_vars>>

\* Line 132.  to_csv writes the booleans of is_default as text.
WriteLoanCsv ==
    /\ pc = "write_loan"
    /\ \/ Written("sample_loan_data.csv",
                  to_csv([i \in DOMAIN loan_df |->
                             [loan_df[i] EXCEPT !.is_default = bool_text(@)]],
                         LoanColumns),
                  "write_guidelines")
       \/ WriteRaised("sample_loan_data.csv")
    /\ UNCHANGED <<n_borrowers, seed_calls, draw_calls, pos, stream,
                   borrower_data, borrower_df, alt_data_df, default_probs,
                   loan_data, loan_df, clock, run, prev_files, call_vars>>

\* Lines 195-196: the static guideline text of lines 140-193.
WriteGuidelines ==
    /\ pc = "write_guidelines"
    /\ \/ Written("data_generation_guidelines.txt",
                  <<"data_generation_guidelines">>, "done")
       \/ WriteRaised("data_generation_guidelines.txt")
    /\ UNCHANGED <<n_borrowers, seed_calls, draw_calls, pos, stream,
                   borrower_data, borrower_df, alt_data_df, default_probs,
                   loan_data, loan_df, clock, run, prev_files, call_vars>>

(***************************************************************************)
(* One run of the script.                                                  *)
(***************************************************************************)
Init == (\E n \in 1..MaxN : GenStart(n)) /\ NoCall

Next ==
    \/ SeedRandom
    \/ GenBorrowerData
    \/ ClipBorrowerData
    \/ MakeBorrowerDf
    \/ GenAltData
    \/ ScoreRow
    \/ GenLoanData
    \/ ClipLoanData
    \/ MakeLoanDf
    \/ WriteBorrowerCsv
    \/ WriteAltCsv
    \/ WriteLoanCsv
    \/ WriteGuidelines

Spec == Init /\ [][Next]_vars

(***************************************************************************)
(* Two runs of the script: after a complete run the script is started      *)
(* again, later, as a new process with the same seed and record count,     *)
(* writing to the same paths.                                              *)
(***************************************************************************)
Rerun ==
    /\ pc = "done"
    /\ run = 1
    /\ run' = 2
    /\ \E t \in (clock + 1)..MaxClock : clock' = t
    /\ prev_files' = files
    /\ pc' = "seed"
    /\ seed_calls' = 0
    /\ draw_calls' = 0
    /\ pos' = 0
    /\ borrower_data' = <<>>
    /\ borrower_df' = <<>>
    /\ alt_data_df' = <<>>
    /\ default_probs' = <<>>
    /\ loan_data' = <<>>
    /\ loan_df' = <<>>
    /\ UNCHANGED <<n_borrowers, stream, files, call_vars>>

NextTwice == Next \/ Rerun

SpecTwice == Init /\ [][NextTwice]_vars

(***************************************************************************)
(* Properties of calculate_default_probability, checked under SpecCall.    *)
(***************************************************************************)
Scenario1Row ==
    [age |-> 35, income |-> 60000, employment_type |-> "Salaried",
     credit_history_months |-> 30]
Scenario1Alt ==
    [utility_bill_payment_consistency |-> 850, upi_transactions_monthly |-> 40,
     location_stability_score |-> 750]
Scenario2Row ==
    [age |-> 60, income |-> 20000, employment_type |-> "Freelancer",
     credit_history_months |-> 5]
Scenario2Alt ==
    [utility_bill_payment_consistency |-> 300, upi_transactions_monthly |-> 5,
     location_stability_score |-> 400]

\* C1: whatever the profile, the alternative-data record and the noise, the
\* value calculate_default_probability returns lies in [0.02, 0.95].
C1_ProbabilityInRange ==
    call_pc = "returned" => (20 <= ret_prob /\ ret_prob <= 950)

\* C1 witness: a call whose score exceeds 0.95 returned 0.95.
C1_Witness ==
    /\ call_pc = "returned"
    /\ 150 + SumSeq(ret_terms) > 950
    /\ ret_prob = 950

\* The sum A of the adjustments as claim C3 lists them.
C3_Adjustments(row, alt_row) ==
      (IF row.age >= 25 /\ row.age <= 45 THEN -100 ELSE 50)
    + (IF row.income > 50000 THEN -150 ELSE 0)
    + (IF row.income < 25000 THEN 200 ELSE 0)
    + (IF row.employment_type = "Salaried" THEN -100 ELSE 0)
    + (IF row.employment_type = "Self-Employed" THEN 50 ELSE 0)
    + (IF alt_row.utility_bill_payment_consistency > 800 THEN -100 ELSE 0)
    + (IF alt_row.upi_transactions_monthly > 30 THEN -50 ELSE 0)
    + (IF alt_row.location_stability_score > 700 THEN -80 ELSE 0)
    + (IF row.credit_history_months > 24 THEN -100 ELSE 0)

\* C3: the function returns clamp(0.15 + A + noise, 0.02, 0.95); with noise 0
\* the first scenario has raw score -0.53 and probability 0.02, the second
\* raw score and probability 0.40.
C3_ScoreFormula ==
    call_pc = "returned" =>
        LET raw == 150 + C3_Adjustments(arg_row, arg_alt_row) + arg_noise
        IN  /\ ret_prob = (IF raw < 20 THEN 20 ELSE IF raw > 950 THEN 950 ELSE raw)
            /\ 150 + SumSeq(ret_terms) = raw
            /\ (arg_row = Scenario1Row /\ arg_alt_row = Scenario1Alt /\ arg_noise = 0)
                  => (raw = -530 /\ ret_prob = 20)
            /\ (arg_row = Scenario2Row /\ arg_alt_row = Scenario2Alt /\ arg_noise = 0)
                  => (raw = 400 /\ ret_prob = 400)

\* C3 witness: the first scenario has been scored.
C3_Witness ==
    /\ call_pc = "returned"
    /\ arg_row = Scenario1Row
    /\ arg_alt_row = Scenario1Alt
    /\ arg_noise = 0
    /\ ret_prob = 20

\* C8: with everything else and the noise fixed, a higher utility-payment
\* consistency never gives a higher probability than the call returned, and
\* a lower one never gives a lower probability.
C8_UtilityMonotone ==
    call_pc = "returned" =>
        \A u \in CallUtilities :
            LET other == calculate_default_probability(
                             arg_row,
                             [arg_alt_row EXCEPT !.utility_bill_payment_consistency = u],
                             arg_noise)
            IN  /\ (u >= arg_alt_row.utility_bill_payment_consistency) => other <= ret_prob
                /\ (u <= arg_alt_row.utility_bill_payment_consistency) => other >= ret_prob

\* C8 witness: a call with consistency 0.5 and noise 0 whose probability is
\* strictly above the one the same inputs get with consistency 0.9.
C8_Witness ==
    /\ call_pc = "returned"
    /\ arg_alt_row.utility_bill_payment_consistency = 500
    /\ arg_noise = 0
    /\ calculate_default_probability(
           arg_row, [arg_alt_row EXCEPT !.utility_bill_payment_consistency = 900],
           arg_noise) < ret_prob

\* C9: ages 25 to 45, both ends included, get -0.10 and ages 24 and 46 get
\* +0.05; incomes of exactly 50000 and 25000 get no income adjustment, 50001
\* gets -0.15 and 24999 gets +0.20.
C9_Boundaries ==
    call_pc = "returned" =>
        /\ (arg_row.age \in {25, 35, 45}) => ret_terms[1] = -100
        /\ (arg_row.age \in {24, 46}) => ret_terms[1] = 50
        /\ (arg_row.income \in {50000, 25000}) => ret_terms[2] = 0
        /\ (arg_row.income = 50001) => ret_terms[2] = -150
        /\ (arg_row.income = 24999) => ret_terms[2] = 200

\* C9 witness: a call with age 45 and income 50000 took the middle age
\* branch and no income adjustment.
C9_Witness ==
    /\ call_pc = "returned"
    /\ arg_row.age = 45
    /\ arg_row.income = 50000
    /\ ret_terms[1] = -100
    /\ ret_terms[2] = 0

(***************************************************************************)
(* Properties of a run, checked under Spec.                                *)
(***************************************************************************)
\* The script has built loan_df.
LoanDfBuilt ==
    pc \in {"write_borrower", "write_alt", "write_loan", "write_guidelines",
            "done", "aborted"}

\* The noise drawn for row i and the uniform drawn for row i, by their
\* places in the generator's stream.
noise_of(i) == stream[2 + i]
uniform_of(i) == stream[3 + n_borrowers][i].uniform

\* C2: in every loan row, default_probability is the clamped score of the
\* same row and is_default is true exactly when the row's uniform draw is
\* strictly less than that stored probability.
C2_OutcomeFromStoredProbability ==
    LoanDfBuilt =>
        \A i \in Rows :
            LET raw == 150 + risk_score(borrower_df[i], alt_data_df[i], noise_of(i))
                clamped == IF raw < 20 THEN 20 ELSE IF raw > 950 THEN 950 ELSE raw
            IN  /\ loan_df[i].default_probability = clamped
                /\ loan_df[i].is_default = (uniform_of(i) < loan_df[i].default_probability)

\* C2 witness: a finished run with a row whose draw equals its clamped
\* probability 0.95, is below its unclamped score, and is not a default.
C2_Witness ==
    /\ pc = "done"
    /\ \E i \in Rows :
          /\ uniform_of(i) = 950
          /\ loan_df[i].default_probability = 950
          /\ 150 + risk_score(borrower_df[i], alt_data_df[i], noise_of(i)) > 950
          /\ ~loan_df[i].is_default

\* The clamped fields of a borrower row and of a loan row are in range.
BorrowerInBounds(age, income, history, account) ==
    /\ 18 <= age /\ age <= 70
    /\ 15000 <= income /\ income <= 2000000
    /\ 0 <= history /\ history <= 120
    /\ 3 <= account /\ account <= 240
LoanInBounds(amount, rate, score) ==
    /\ 10000 <= amount /\ amount <= 1000000
    /\ 800 <= rate /\ rate <= 2500
    /\ 300 <= score /\ score <= 850

\* Field `name' of data line i of a written CSV file, found by its header.
csv_field(content, i, name) ==
    LET k == CHOOSE j \in DOMAIN content[1] : content[1][j] = name
    IN  content[i + 1][k]

\* A CSV file that has been written with its data.
HasData(name) == name \in DOMAIN files /\ Len(files[name]) > 0

\* C4: every borrower row and loan row of the DataFrames and of the CSV
\* files has its clamped fields within their bounds.
C4_ClampedFieldsInBounds ==
    /\ \A i \in DOMAIN borrower_df :
          BorrowerInBounds(borrower_df[i].age, borrower_df[i].income,
                           borrower_df[i].credit_history_months,
                           borrower_df[i].bank_account_age_months)
    /\ \A i \in DOMAIN loan_df :
          LoanInBounds(loan_df[i].loan_amount, loan_df[i].interest_rate,
                       loan_df[i].credit_score_traditional)
    /\ HasData("sample_borrower_data.csv") =>
          LET f == files["sample_borrower_data.csv"]
          IN  \A i \in 1..(Len(f) - 1) :
                 BorrowerInBounds(csv_field(f, i, "age"), csv_field(f, i, "income"),
                                  csv_field(f, i, "credit_history_months"),
                                  csv_field(f, i, "bank_account_age_months"))
    /\ HasData("sample_loan_data.csv") =>
          LET f == files["sample_loan_data.csv"]
          IN  \A i \in 1..(Len(f) - 1) :
                 LoanInBounds(csv_field(f, i, "loan_amount"),
                              csv_field(f, i, "interest_rate"),
                              csv_field(f, i, "credit_score_traditional"))

\* C4 witness: a finished run in which a drawn age below 18 and a drawn loan
\* amount above 1000000 reached the files as 18 and 1000000.
C4_Witness ==
    /\ pc = "done"
    /\ \E i \in Rows :
          /\ astype_int(stream[1][i].age) < 18
          /\ csv_field(files["sample_borrower_data.csv"], i, "age") = 18
    /\ \E i \in Rows :
          /\ astype_int(stream[3 + n_borrowers][i].loan_amount) > 1000000
          /\ csv_field(files["sample_loan_data.csv"], i, "loan_amount") = 1000000

\* C5: the three tables have n_borrowers rows each, borrower identifiers are
\* pairwise distinct, and every loan row's borrower_id is that of exactly one
\* borrower row and exactly one alternative-data row, the rows at the same
\* position.
C5_ReferentialIntegrity ==
    LoanDfBuilt =>
        /\ Len(borrower_df) = n_borrowers
        /\ Len(alt_data_df) = n_borrowers
        /\ Len(loan_df) = n_borrowers
        /\ \A i, j \in Rows :
              borrower_df[i].borrower_id = borrower_df[j].borrower_id => i = j
        /\ \A i \in Rows :
              /\ {j \in Rows : borrower_df[j].borrower_id = loan_df[i].borrower_id} = {i}
              /\ {j \in Rows : alt_data_df[j].borrower_id = loan_df[i].borrower_id} = {i}

\* C5 witness: a finished run with two borrowers whose second loan row
\* carries the second borrower's identifier BRW000002.
C5_Witness ==
    /\ pc = "done"
    /\ n_borrowers >= 2
    /\ loan_df[2].borrower_id = <<"BRW", 0, 0, 0, 0, 0, 2>>
    /\ borrower_df[1].borrower_id # borrower_df[2].borrower_id

\* C10: the generator is seeded at most once, it has been seeded once when
\* any draw has been made and when the run ends, and every draw made so far
\* is a value of the seeded stream.
C10_SeededOnceBeforeDraws ==
    /\ seed_calls <= 1
    /\ (draw_calls > 0 \/ pc # "seed") => seed_calls = 1
    /\ pos <= Len(stream)
    /\ draw_calls > 0 => pos > 0
    /\ pc \in {"loan_clip", "loan_df"} \cup
             {"write_borrower", "write_alt", "write_loan", "write_guidelines",
              "done", "aborted"}
          => pos = 3 + n_borrowers

\* C10 witness: a finished run that seeded once and made all of its draws.
C10_Witness ==
    /\ pc = "done"
    /\ seed_calls = 1
    /\ draw_calls = 8 + 9 + n_borrowers + 5 + 2 * n_borrowers

\* C7: when the run has ended, either all four artifacts are present or
\* none of them is.
C7_AllOrNothing ==
    pc \in {"done", "aborted"} => (DOMAIN files = {} \/ DOMAIN files = OutputFiles)

(***************************************************************************)
(* Property of two runs, checked under SpecTwice.                          *)
(***************************************************************************)
\* C6: a second complete run with the same seed and record count leaves
\* every output file exactly as the first run wrote it.
C6_RerunByteIdentical ==
    (run = 2 /\ pc = "done") => files = prev_files

====
